---- MODULE Spec2Model ----
(***************************************************************************)
(* Model of package goint: the adaptive Boole's-rule integrator            *)
(* (src/integrator.go) and the earlier midpoint-only refinedPoints          *)
(* (src/unnamed/part_000).                                                  *)
(*                                                                         *)
(* float64 values are modelled as exact rationals n/d together with the    *)
(* three IEEE-754 special values +Inf, -Inf and NaN.  The special values   *)
(* follow the IEEE rules the Go code relies on (Inf - Inf = NaN,           *)
(* 0 * Inf = NaN, every ordered comparison with NaN is false); rounding    *)
(* and overflow of finite values are not modelled.                         *)
(***************************************************************************)
EXTENDS Integers, Sequences, FiniteSets, TLC

VARIABLES f, a, b, err, run, mirror, p, out

vars == <<f, a, b, err, run, mirror, p, out>>

(***************************************************************************)
(* Bounds of the model.                                                    *)
(***************************************************************************)
MaxIter == 3
MaxLen == 4
MaxPoint == 4
MaxEnd == 1
MaxThr == 2
MaxCoef == 1

(***************************************************************************)
(* float64 arithmetic.                                                     *)
(***************************************************************************)
RECURSIVE GCD(_, _)
GCD(x, y) == IF y = 0 THEN x ELSE GCD(y, x % y)

AbsInt(x) == IF x < 0 THEN -x ELSE x

Rat(n, d) ==
  LET g == GCD(AbsInt(n), d)
  IN [k |-> "fin", n |-> n \div g, d |-> d \div g]

Num(n) == [k |-> "fin", n |-> n, d |-> 1]

PInf == [k |-> "pinf", n |-> 0, d |-> 1]

NInf == [k |-> "ninf", n |-> 0, d |-> 1]

NaN == [k |-> "nan", n |-> 0, d |-> 1]

IsNaN(x) == x.k = "nan"

IsFinite(x) == x.k = "fin"

\* math.IsInf(x, sign): sign > 0 asks for +Inf, sign < 0 for -Inf.
IsInf(x, sign) == IF sign > 0 THEN x.k = "pinf" ELSE x.k = "ninf"

Sgn(x) ==
  CASE x.k = "pinf" -> 1
    [] x.k = "ninf" -> -1
    [] x.k = "fin" -> (IF x.n > 0 THEN 1 ELSE IF x.n < 0 THEN -1 ELSE 0)
    [] OTHER -> 0

Neg(x) ==
  CASE x.k = "pinf" -> NInf
    [] x.k = "ninf" -> PInf
    [] x.k = "fin" -> [k |-> "fin", n |-> -x.n, d |-> x.d]
    [] OTHER -> NaN

Add(x, y) ==
  IF IsNaN(x) \/ IsNaN(y) THEN NaN
  ELSE IF IsFinite(x) /\ IsFinite(y)
       THEN LET g == GCD(x.d, y.d)
            IN Rat(x.n * (y.d \div g) + y.n * (x.d \div g), (x.d \div g) * y.d)
  ELSE IF IsFinite(x) THEN y
  ELSE IF IsFinite(y) THEN x
  ELSE IF x.k = y.k THEN x
  ELSE NaN

Sub(x, y) == Add(x, Neg(y))

Mul(x, y) ==
  IF IsNaN(x) \/ IsNaN(y) THEN NaN
  ELSE IF IsFinite(x) /\ IsFinite(y)
       THEN LET g1 == GCD(AbsInt(x.n), y.d)
                g2 == GCD(AbsInt(y.n), x.d)
            IN Rat((x.n \div g1) * (y.n \div g2), (x.d \div g2) * (y.d \div g1))
  ELSE LET s == Sgn(x) * Sgn(y)
       IN IF s > 0 THEN PInf ELSE IF s < 0 THEN NInf ELSE NaN

\* x / c for a positive literal c (the code divides by 2, 4.0 and 45.0 only).
Quo(x, c) == Mul(x, Rat(1, c))

Abs(x) == IF Sgn(x) < 0 THEN Neg(x) ELSE x

Less(x, y) ==
  IF IsNaN(x) \/ IsNaN(y) THEN FALSE
  ELSE IF x.k = "ninf" THEN y.k # "ninf"
  ELSE IF y.k = "pinf" THEN x.k # "pinf"
  ELSE IF x.k = "pinf" \/ y.k = "ninf" THEN FALSE
  ELSE x.n * y.d < y.n * x.d

LessEq(x, y) == ~IsNaN(x) /\ ~IsNaN(y) /\ ~Less(y, x)

\* (x + y) / 2 as refinedPoints writes it.
Mid(x, y) == Quo(Add(x, y), 2)

\* points[i] * 2
Twice(x) == Mul(x, Num(2))

(***************************************************************************)
(* refinedPoints, src/integrator.go.  Slices are 0-based in the source and *)
(* 1-based here: source index i is index i + 1 below.  The array is built  *)
(* by the same writes in the same order, so that a later write to an index *)
(* replaces an earlier one.                                                *)
(***************************************************************************)
\* The sign tests written strictly: points[1] > 0 and points[0] < 0.
BootstrapStrict(points) ==
  IF IsInf(points[1], -1) /\ IsInf(points[2], 1)
    THEN <<points[1], Num(0), points[2]>>
  ELSE IF IsInf(points[1], -1) /\ Less(Num(0), points[2])
    THEN <<points[1], Num(-1), points[2]>>
  ELSE IF IsInf(points[2], 1) /\ Less(points[1], Num(0))
    THEN <<points[1], Num(1), points[2]>>
  ELSE <<>>

Bootstrap(points) ==
  IF IsInf(points[1], -1) /\ IsInf(points[2], 1)
    THEN <<points[1], Num(0), points[2]>>
  ELSE IF IsInf(points[1], -1) /\ LessEq(Num(0), points[2])
    THEN <<points[1], Num(-1), points[2]>>
  ELSE IF IsInf(points[2], 1) /\ LessEq(points[1], Num(0))
    THEN <<points[1], Num(1), points[2]>>
  ELSE <<>>

\* refined[0], refined[1]
LeftEnd(points, refined) ==
  IF IsInf(points[1], -1)
    THEN [refined EXCEPT ![1] = points[1], ![2] = Twice(points[2])]
    ELSE [refined EXCEPT ![1] = points[1], ![2] = Mid(points[1], points[2])]

\* The loop stopping one pair early: i < points_end-2.
InterpolateShort(points, refined) ==
  LET points_end == Len(points) - 1
  IN [j \in 1..Len(refined) |->
        IF j >= 3 /\ j <= 2 * (points_end - 3) + 2
          THEN LET i0 == (j - 1) \div 2
               IN IF (j - 1) % 2 = 0
                    THEN points[i0 + 1]
                    ELSE Mid(points[i0 + 1], points[i0 + 2])
          ELSE refined[j]]

\* for i := 1; i < points_end-1; i++ (source i is i0 here, ndx == 2 * i0)
Interpolate(points, refined) ==
  LET points_end == Len(points) - 1
  IN [j \in 1..Len(refined) |->
        IF j >= 3 /\ j <= 2 * (points_end - 2) + 2
          THEN LET i0 == (j - 1) \div 2
               IN IF (j - 1) % 2 = 0
                    THEN points[i0 + 1]
                    ELSE Mid(points[i0 + 1], points[i0 + 2])
          ELSE refined[j]]

\* refined[refined_end], refined[refined_end-1], refined[refined_end-2]
RightEnd(points, refined) ==
  LET pe == Len(points)
      re == Len(refined)
  IN IF IsInf(points[pe], 1)
       THEN [[[refined EXCEPT ![re] = points[pe]]
                       EXCEPT ![re - 1] = Twice(points[pe - 1])]
                       EXCEPT ![re - 2] = points[pe - 1]]
       ELSE [[[refined EXCEPT ![re] = points[pe]]
                       EXCEPT ![re - 1] = Mid(points[pe], points[pe - 1])]
                       EXCEPT ![re - 2] = points[pe - 1]]

refinedPoints(points) ==
  IF Len(points) = 2 /\ Bootstrap(points) # <<>>
    THEN Bootstrap(points)
    ELSE LET zero == [j \in 1..(Len(points) * 2 - 1) |-> Num(0)]
         IN RightEnd(points, Interpolate(points, LeftEnd(points, zero)))

(***************************************************************************)
(* The earlier refinedPoints, src/unnamed/part_000 lines 86-98: plain      *)
(* midpoint insertion.                                                     *)
(***************************************************************************)
refinedPointsOld(points) ==
  [j \in 1..(Len(points) * 2 - 1) |->
     IF j % 2 = 1
       THEN points[(j + 1) \div 2]
       ELSE Mid(points[j \div 2], points[j \div 2 + 1])]

(***************************************************************************)
(* Integrands (type Function).  The code takes any func(float64) float64;  *)
(* the model draws it from two families, each closed under x -> -f(x):     *)
(*   "poly": c[1] + c[2] x + ... evaluated as makePolynomial does;         *)
(*   "step": `below` for x < t, `above` for x >= t, `atnan` for x = NaN,   *)
(*           where the three levels may be finite, +Inf, -Inf or NaN       *)
(*           (as math.Exp is +Inf beyond its overflow threshold).          *)
(***************************************************************************)
RECURSIVE PolyEval(_, _, _, _, _)
PolyEval(c, i, x, xx, ret) ==
  IF i > Len(c) THEN ret
  ELSE PolyEval(c, i + 1, x, Mul(xx, x), Add(ret, Mul(xx, Num(c[i]))))

\* makePolynomial(coefs)(x)
makePolynomial(coefs, x) == PolyEval(coefs, 1, x, Num(1), Num(0))

StepEval(fn, x) ==
  IF IsNaN(x) THEN fn.atnan
  ELSE IF Less(x, fn.t) THEN fn.below
  ELSE fn.above

\* f(x)
Apply(fn, x) ==
  LET y == IF fn.kind = "poly" THEN makePolynomial(fn.c, x) ELSE StepEval(fn, x)
  IN IF fn.neg THEN Neg(y) ELSE y

\* func(x float64) float64 { return -f(x) }
Negated(fn) == [fn EXCEPT !.neg = ~fn.neg]

(***************************************************************************)
(* boolesrule, src/integrator.go lines 14-23.                              *)
(***************************************************************************)
BooleSum(fa, f2, f3, f4, fb) ==
  Add(Add(Add(Add(Mul(Num(7), fa), Mul(Num(32), f2)), Mul(Num(12), f3)),
          Mul(Num(32), f4)), Mul(Num(7), fb))

\* Simpson's rule in place of Boole's rule (exact up to degree 3 only).
SimpsonInsteadOfBoole(fn, lo, hi) ==
  Quo(Mul(Sub(hi, lo),
          Add(Add(Apply(fn, lo), Mul(Num(4), Apply(fn, Mid(lo, hi)))), Apply(fn, hi))),
      6)

boolesrule(fn, lo, hi) ==
  LET h == Quo(Sub(hi, lo), 4)
      fa == Apply(fn, lo)
      f2 == Apply(fn, Add(lo, h))
      f3 == Apply(fn, Add(lo, Mul(Num(2), h)))
      f4 == Apply(fn, Add(lo, Mul(Num(3), h)))
      fb == Apply(fn, hi)
  IN Quo(Mul(Mul(Num(2), h), BooleSum(fa, f2, f3, f4, fb)), 45)

(***************************************************************************)
(* Integrate, src/integrator.go lines 28-76.  A call is a record:          *)
(*   points, ret, refined, done   the locals of the same names;            *)
(*   pc       "loop" while the for loop runs, "return" once it returned;   *)
(*   iter     the number of loop iterations executed;                      *)
(*   calls    the <<L, R>> bounds passed to boolesrule in the last         *)
(*            iteration, in order;                                         *)
(*   prev     the breakpoints before the last refinement.                  *)
(***************************************************************************)
\* lines 29-39
Start(fn, lo, hi) ==
  [points |-> <<lo, hi>>,
   ret |-> IF IsInf(lo, -1) \/ IsInf(hi, 1) THEN PInf ELSE boolesrule(fn, lo, hi),
   refined |-> Num(0),
   done |-> FALSE,
   pc |-> "loop",
   iter |-> 0,
   calls |-> <<>>,
   prev |-> <<>>]

\* lines 45-54: the 0-based start and end of the source
SkipStart(points) == IF IsInf(points[1], -1) THEN 2 ELSE 1

\* The trailing +Inf subinterval not skipped (end -= 1 left out).
SkipEndNever(points) == Len(points)

SkipEnd(points) ==
  IF IsInf(points[Len(points)], 1) THEN Len(points) - 1 ELSE Len(points)

\* lines 57-61: L := points[start-1]; for _, R := range points[start:end]
Panels(points) ==
  LET start == SkipStart(points)
      end == SkipEnd(points)
  IN [j \in 1..(IF end > start THEN end - start ELSE 0) |->
        <<points[start + j - 1], points[start + j]>>]

RECURSIVE SumPanels(_, _, _, _)
SumPanels(fn, panels, j, acc) ==
  IF j > Len(panels) THEN acc
  ELSE SumPanels(fn, panels, j + 1,
                 Add(acc, boolesrule(fn, panels[j][1], panels[j][2])))

\* The test written as "not above the tolerance", which NaN passes.
ConvergedUnlessAbove(ret, refined, tol) == ~Less(tol, Abs(Sub(ret, refined)))

\* line 68
Converged(ret, refined, tol) == Less(Abs(Sub(ret, refined)), tol)

\* lines 64-67
Unbounded(ret, refined) ==
  \/ IsInf(ret, 1) /\ IsInf(refined, 1)
  \/ IsInf(ret, -1) /\ IsInf(refined, -1)

\* lines 41-72: one pass of the for loop, and the return it may lead to
Body(fn, tol, st) ==
  LET points == refinedPoints(st.points)
      panels == Panels(points)
      refined == SumPanels(fn, panels, 1, Num(0))
      common == [st EXCEPT !.points = points, !.refined = refined,
                           !.iter = st.iter + 1, !.calls = panels,
                           !.prev = st.points]
  IN IF Unbounded(st.ret, refined)
       THEN [common EXCEPT !.pc = "return"]
     ELSE IF Converged(st.ret, refined, tol)
       THEN [common EXCEPT !.done = TRUE, !.ret = refined, !.pc = "return"]
     ELSE [common EXCEPT !.ret = refined]

Idle ==
  [points |-> <<>>, ret |-> Num(0), refined |-> Num(0), done |-> FALSE,
   pc |-> "idle", iter |-> 0, calls |-> <<>>, prev |-> <<>>]

(***************************************************************************)
(* Inputs.                                                                 *)
(***************************************************************************)
Levels == {NInf, Num(0), Num(1), PInf, NaN}

Thresholds == {Rat(2 * i + 1, 2) : i \in (-MaxThr)..(MaxThr - 1)}

StepIntegrands ==
  [kind : {"step"}, c : {<<>>}, t : Thresholds, below : Levels, above : Levels,
   atnan : {NaN, Num(1)}, neg : BOOLEAN]

Coefs == 0..MaxCoef

PolyIntegrands ==
  [kind : {"poly"}, c : [1..6 -> Coefs], t : {Num(0)}, below : {Num(0)},
   above : {Num(0)}, atnan : {Num(0)}, neg : BOOLEAN]

NoIntegrand ==
  [kind |-> "none", c |-> <<>>, t |-> Num(0), below |-> Num(0), above |-> Num(0),
   atnan |-> Num(0), neg |-> FALSE]

Endpoints == {NInf, PInf} \cup {Num(i) : i \in (-MaxEnd)..MaxEnd}

\* a < b, a is not +Inf, b is not -Inf
ValidInterval(lo, hi) == Less(lo, hi)

Tols == {Rat(1, 100), Num(5)}

(***************************************************************************)
(* Spec: one call Integrate(f, a, b, err) with a step integrand.           *)
(***************************************************************************)
Init ==
  /\ f \in StepIntegrands
  /\ a \in Endpoints
  /\ b \in Endpoints
  /\ ValidInterval(a, b)
  /\ err \in Tols
  /\ run = Start(f, a, b)
  /\ mirror = Idle
  /\ p = <<>>
  /\ out = <<>>

\* line 40, for !done, within the iteration bound of the model
Running(st) == st.pc = "loop" /\ st.iter < MaxIter

Iterate ==
  /\ Running(run)
  /\ run' = Body(f, err, run)
  /\ UNCHANGED <<f, a, b, err, mirror, p, out>>

Next == Iterate

Spec == Init /\ [][Next]_vars

(***************************************************************************)
(* SymSpec: Integrate(f, a, b, err) and Integrate(x -> -f(x), a, b, err),  *)
(* two independent calls.  Each call runs to its return unless its loop    *)
(* never ends, hence the weak fairness of each.                            *)
(***************************************************************************)
SymInit ==
  /\ f \in StepIntegrands
  /\ a \in Endpoints
  /\ b \in Endpoints
  /\ ValidInterval(a, b)
  /\ err \in Tols
  /\ run = Start(f, a, b)
  /\ mirror = Start(Negated(f), a, b)
  /\ p = <<>>
  /\ out = <<>>

IterateNegated ==
  /\ Running(mirror)
  /\ mirror' = Body(Negated(f), err, mirror)
  /\ UNCHANGED <<f, a, b, err, run, p, out>>

SymNext == Iterate \/ IterateNegated

SymSpec == SymInit /\ [][SymNext]_vars /\ WF_vars(Iterate) /\ WF_vars(IterateNegated)

(***************************************************************************)
(* PolySpec: Integrate(p, a, b, err) for a polynomial p of degree <= 5 and *)
(* finite a < b.                                                           *)
(***************************************************************************)
PolyInit ==
  /\ f \in PolyIntegrands
  /\ a \in Endpoints
  /\ b \in Endpoints
  /\ IsFinite(a)
  /\ IsFinite(b)
  /\ ValidInterval(a, b)
  /\ err \in Tols
  /\ run = Start(f, a, b)
  /\ mirror = Idle
  /\ p = <<>>
  /\ out = <<>>

PolySpec == PolyInit /\ [][Next]_vars

(***************************************************************************)
(* RefineSpec: one call refinedPoints(p) on a strictly increasing sequence *)
(* of 2..MaxLen breakpoints, of which only the first may be -Inf and only  *)
(* the last +Inf.                                                          *)
(***************************************************************************)
PointVals == {NInf, PInf} \cup {Num(i) : i \in (-MaxPoint)..MaxPoint}

Increasing(s) == \A i \in 1..(Len(s) - 1) : Less(s[i], s[i + 1])

Breakpoints ==
  UNION {{s \in [1..n -> PointVals] : Increasing(s)} : n \in 2..MaxLen}

RefineInit ==
  /\ p \in Breakpoints
  /\ out = <<>>
  /\ f = NoIntegrand
  /\ a = Num(0)
  /\ b = Num(0)
  /\ err = Num(0)
  /\ run = Idle
  /\ mirror = Idle

Refine ==
  /\ out = <<>>
  /\ out' = refinedPoints(p)
  /\ UNCHANGED <<f, a, b, err, run, mirror, p>>

RefineNext == Refine

RefineSpec == RefineInit /\ [][RefineNext]_vars

(***************************************************************************)
(* Helpers of the properties.                                              *)
(***************************************************************************)
Returned(st) == st.pc = "return"

Last(s) == s[Len(s)]

Interior(s) == {s[i] : i \in 2..(Len(s) - 1)}

AllFinite(s) == \A i \in 1..Len(s) : IsFinite(s[i])

\* The arguments boolesrule passes to the integrand over the panels `calls`.
EvalPoints(calls) ==
  UNION {LET lo == calls[j][1]
             hi == calls[j][2]
             h == Quo(Sub(hi, lo), 4)
         IN {lo, Add(lo, h), Add(lo, Mul(Num(2), h)), Add(lo, Mul(Num(3), h)), hi}
         : j \in 1..Len(calls)}

(***************************************************************************)
(* C1.  After every refinement step of Integrate(f, a, b, err) on a valid  *)
(* interval the breakpoint sequence is strictly increasing, starts with a  *)
(* and ends with b.                                                        *)
(***************************************************************************)
C1_BreakpointsOrdered ==
  run.iter >= 1 =>
    /\ Increasing(run.points)
    /\ run.points[1] = a
    /\ Last(run.points) = b

(***************************************************************************)
(* C2.  In every iteration every call to boolesrule has two finite bounds: *)
(* an infinite breakpoint occurs only first or last, and the skipping      *)
(* removes exactly the subintervals that touch it.                         *)
(***************************************************************************)
C2_PanelBoundsFinite ==
  run.iter >= 1 =>
    /\ \A j \in 1..Len(run.calls) :
          IsFinite(run.calls[j][1]) /\ IsFinite(run.calls[j][2])
    /\ \A x \in Interior(run.points) : IsFinite(x)
    /\ {run.calls[j] : j \in 1..Len(run.calls)}
         = {<<run.points[i], run.points[i + 1]>> : i \in
              {i \in 1..(Len(run.points) - 1) :
                 IsFinite(run.points[i]) /\ IsFinite(run.points[i + 1])}}

(***************************************************************************)
(* C3.  For a strictly increasing sequence p of n >= 2 finite numbers,     *)
(* refinedPoints(p) has length 2n-1, keeps p[i] at the even (0-based)      *)
(* indices and puts the midpoint of p[i] and p[i+1] between them; it       *)
(* agrees with the earlier midpoint-insertion refinedPoints.               *)
(***************************************************************************)
C3_FiniteRefinement ==
  (out # <<>> /\ AllFinite(p)) =>
    /\ Len(out) = 2 * Len(p) - 1
    /\ \A i \in 1..Len(p) : out[2 * i - 1] = p[i]
    /\ \A i \in 1..(Len(p) - 1) : Add(out[2 * i], out[2 * i]) = Add(p[i], p[i + 1])
    /\ out = refinedPointsOld(p)

C3_Witness ==
  /\ p = <<Num(0), Num(2), Num(4)>>
  /\ out = <<Num(0), Num(1), Num(2), Num(3), Num(4)>>

(***************************************************************************)
(* C7.  Bootstrap fall-through: refinedPoints([-Inf, b]) with finite b < 0 *)
(* is [-Inf, 2b, b] and refinedPoints([a, +Inf]) with finite a > 0 is      *)
(* [a, 2a, +Inf]; the interior point is finite.                            *)
(***************************************************************************)
C7_FallThroughDoubling ==
  (out # <<>> /\ Len(p) = 2) =>
    /\ (IsInf(p[1], -1) /\ IsFinite(p[2]) /\ Less(p[2], Num(0)))
         => out = <<NInf, Twice(p[2]), p[2]>>
    /\ (IsInf(p[2], 1) /\ IsFinite(p[1]) /\ Less(Num(0), p[1]))
         => out = <<p[1], Twice(p[1]), PInf>>

(***************************************************************************)
(* C9.  Bootstrap special cases: a two-point sequence is refined to three  *)
(* points, the endpoints kept, with interior point 0 for [-Inf, +Inf],     *)
(* -1 for [-Inf, b] with finite b >= 0, and 1 for [a, +Inf] with finite    *)
(* a <= 0.                                                                 *)
(***************************************************************************)
C9_BootstrapCases ==
  (out # <<>> /\ Len(p) = 2) =>
    /\ (IsInf(p[1], -1) /\ IsInf(p[2], 1)) => out = <<NInf, Num(0), PInf>>
    /\ (IsInf(p[1], -1) /\ IsFinite(p[2]) /\ LessEq(Num(0), p[2]))
         => out = <<NInf, Num(-1), p[2]>>
    /\ (IsInf(p[2], 1) /\ IsFinite(p[1]) /\ LessEq(p[1], Num(0)))
         => out = <<p[1], Num(1), PInf>>

C9_Witness ==
  /\ p = <<NInf, Num(0)>>
  /\ out = <<NInf, Num(-1), Num(0)>>

(***************************************************************************)
(* C8.  On every refinement step after the bootstrap of a call whose left  *)
(* endpoint is -Inf, the new second breakpoint is twice the previous       *)
(* second breakpoint and strictly smaller, and the previous one is kept at *)
(* index 2; symmetrically for a right endpoint of +Inf, the second-to-last *)
(* breakpoint strictly increasing.                                         *)
(***************************************************************************)
C8_BoundaryDoubles ==
  run.iter >= 2 =>
    /\ IsInf(a, -1) =>
         /\ run.points[2] = Twice(run.prev[2])
         /\ Less(run.points[2], run.prev[2])
         /\ run.points[3] = run.prev[2]
    /\ IsInf(b, 1) =>
         LET n == Len(run.points)
             m == Len(run.prev)
         IN /\ run.points[n - 1] = Twice(run.prev[m - 1])
            /\ Less(run.prev[m - 1], run.points[n - 1])
            /\ run.points[n - 2] = run.prev[m - 1]

(***************************************************************************)
(* C10.  NaN poisoning: once the refined sum of an iteration is NaN, the   *)
(* call has not returned, every point evaluated is evaluated again in the  *)
(* next iteration, and the next refined sum is NaN too.                    *)
(***************************************************************************)
C10_NaNPoisoning ==
  [][/\ IsNaN(run'.refined) => (run'.pc = "loop" /\ ~run'.done)
     /\ (run.iter >= 1 /\ IsNaN(run.refined)) =>
          /\ IsNaN(run'.refined)
          /\ EvalPoints(run.calls) \subseteq EvalPoints(run'.calls)]_vars

C10_Witness ==
  /\ run.iter = MaxIter
  /\ IsNaN(run.refined)
  /\ IsNaN(run.ret)
  /\ run.pc = "loop"

(***************************************************************************)
(* C5.  For a polynomial of degree <= 5 and finite a < b, the initial      *)
(* estimate is the exact integral P(b) - P(a), and Integrate returns it    *)
(* after exactly one refinement iteration, whatever the tolerance.         *)
(***************************************************************************)
RECURSIVE Power(_, _)
Power(x, i) == IF i = 0 THEN Num(1) ELSE Mul(x, Power(x, i - 1))

RECURSIVE AntiTerms(_, _, _)
AntiTerms(c, x, i) ==
  IF i > Len(c) THEN Num(0)
  ELSE Add(Quo(Mul(Num(c[i]), Power(x, i)), i), AntiTerms(c, x, i + 1))

ExactIntegral(fn, lo, hi) ==
  LET v == Sub(AntiTerms(fn.c, hi, 1), AntiTerms(fn.c, lo, 1))
  IN IF fn.neg THEN Neg(v) ELSE v

C5_PolynomialExact ==
  /\ run.ret = ExactIntegral(f, a, b)
  /\ run.iter >= 1 =>
       /\ Returned(run)
       /\ run.done
       /\ run.iter = 1
       /\ run.refined = run.ret

C5_Witness ==
  /\ Returned(run)
  /\ run.iter = 1
  /\ f.c = <<1, 0, 1, 0, 1, 1>>
  /\ a = Num(-1)
  /\ b = Num(1)
  /\ run.ret = Rat(46, 15)

(***************************************************************************)
(* C4.  Sign symmetry: Integrate(x -> -f(x), a, b, err) returns exactly    *)
(* when Integrate(f, a, b, err) returns, and returns the negated value.    *)
(***************************************************************************)
C4_SignSymmetry ==
  /\ (~Running(run) /\ ~Running(mirror)) =>
       (Returned(run) <=> Returned(mirror))
  /\ (Returned(run) /\ Returned(mirror)) => mirror.ret = Neg(run.ret)

(***************************************************************************)
(* C6.  On a half-infinite interval, for an integrand that is never NaN,   *)
(* is non-negative and is +Inf everywhere beyond a finite threshold        *)
(* towards the infinite endpoint, Integrate returns, and returns +Inf      *)
(* unless two successive finite estimates met the tolerance first; for the *)
(* negated integrand it returns, with -Inf in place of +Inf.               *)
(***************************************************************************)
NonNegative(x) == IsInf(x, 1) \/ (IsFinite(x) /\ x.n >= 0)

Divergent ==
  /\ f.kind = "step"
  /\ ~f.neg
  /\ NonNegative(f.below)
  /\ NonNegative(f.above)
  /\ NonNegative(f.atnan)
  /\ \/ IsFinite(a) /\ IsInf(b, 1) /\ IsInf(f.above, 1)
     \/ IsInf(a, -1) /\ IsFinite(b) /\ IsInf(f.below, 1)

C6_DivergenceDetected ==
  Divergent =>
    /\ ~Running(run) => Returned(run)
    /\ ~Running(mirror) => Returned(mirror)
    /\ Returned(run) => IsInf(run.ret, 1) \/ (IsFinite(run.ret) /\ run.done)
    /\ Returned(mirror) =>
         IsInf(mirror.ret, -1) \/ (IsFinite(mirror.ret) /\ mirror.done)

====
